---- MODULE Spec2Model ----
(***************************************************************************)
(* Cartouche bot service: the reaction queue (ReactionEngine), the         *)
(* decision engine (BotManager.process_bot_activity) and the callers that  *)
(* drive them (routes and the periodic process_reactions job).             *)
(*                                                                         *)
(* Every coroutine is cut at its awaits: one action is the code that runs  *)
(* between two suspensions of the asyncio loop, so two invocations         *)
(* interleave exactly where the code can be suspended.                     *)
(*                                                                         *)
(* The compositions that are checked:                                      *)
(*   Spec        request-triggered invocations of process_bot_activity;    *)
(*   EngineSpec  one ReactionEngine object: fan-out and drain on its queue;*)
(*   AppSpec     the objects as main.py and the routes construct them;     *)
(*   FanOutSpec  one fan-out call and what it returns;                     *)
(*   GrowthSpec  initialize_bots and daily_growth, one after the other;    *)
(*   OverlapSpec the same two jobs, interleaved at their awaits;           *)
(*   ProfileSpec the probabilities of a synthesized bot;                   *)
(*   SchedSpec   the Scheduler with the tasks of main.py;                  *)
(*   SchedLiveSpec, the same under a running event loop;                   *)
(*   ShutdownSpec the Scheduler with the shutdown of the application;      *)
(*   WindowSpec  process_bot_activity over posts of every kind of date;    *)
(*   TargetSpec  one ReactionEngine asked to react to any post;            *)
(*   ActivitySpec process_bot_activity and the hourly job.                 *)
(***************************************************************************)
EXTENDS Integers, Sequences, FiniteSets, Bags, TLC

----------------------------------------------------------------------------
(* Bounds of the model *)

NumBots == 2
NumPosts == 2
MaxTicks == 1
MaxInvocations == 2
MaxTasks == 2
TickStep == 150

\* The population settings (environment variables of settings.py)
INITIAL_BOTS_COUNT == 3
DAILY_BOTS_GROWTH_MIN == 1
DAILY_BOTS_GROWTH_MAX == 2
MAX_BOTS_COUNT == 4

\* How long the scheduler is watched, in seconds after the start
MaxClock == 330

(* Program constants *)

REACTION_DELAY_MIN == 30
REACTION_DELAY_MAX == 300

SecondsPerDay == 24 * 60 * 60
\* the clock starts 100 s before midnight (UTC), so the calendar day changes
\* during a run
StartTime == 10 * SecondsPerDay - 100
EndTime == StartTime + MaxTicks * TickStep

----------------------------------------------------------------------------
(* Data *)

BotIds == 1..NumBots
Names == <<"bot1", "bot2", "bot3", "bot4">>
BotName(b) == Names[b]

\* (like_probability, comment_probability) in hundredths of the bots in the
\* table: a category baseline, all zero (set through the admin update), and
\* like-only.
Profiles == <<(<<50, 50>>), (<<0, 0>>), (<<100, 0>>)>>
BotProfile(b) == Profiles[((b - 1) % Len(Profiles)) + 1]

\* random.random() in hundredths: a value of [0.0, 1.0)
Draws == {0, 50, 99}

ActionTypes == {"like", "comment"}

\* str() of a docID
Digits == <<"1", "2", "3", "4", "5", "6", "7", "8", "9">>
Str(n) == Digits[n]

\* datetime.date() of a clock value, as a day number
DateOf(t) == t \div SecondsPerDay

Today0 == DateOf(StartTime)

\* The formats process_bot_activity tries, in its order
KnownFormats ==
    <<"%Y-%m-%dT%H:%M:%S", "%Y-%m-%dT%H:%M:%S.%f", "%m/%d/%Y",
      "%Y-%m-%dT%H:%M:%S%z", "%Y-%m-%dT%H:%M:%S.%f%z">>

NoDate == -1

\* An OnDate string is modelled by the format it is written in and the
\* calendar day it denotes; fmt "" is a missing OnDate.
OnDateOf(i) ==
    CASE i % 6 = 1 -> [fmt |-> "%m/%d/%Y", day |-> Today0 - 2]
      [] i % 6 = 2 -> [fmt |-> "%Y-%m-%dT%H:%M:%S", day |-> Today0]
      [] i % 6 = 3 -> [fmt |-> "%m/%d/%Y", day |-> Today0 - 3]
      [] i % 6 = 4 -> [fmt |-> "%Y-%m-%dT%H:%M:%S.%f", day |-> Today0 + 1]
      [] i % 6 = 5 -> [fmt |-> "%d.%m.%Y", day |-> Today0]
      [] OTHER     -> [fmt |-> "", day |-> Today0]

\* The posts the platform can hold; docIDs are handed out in order.
Post(i) == [docID |-> i, OnDate |-> OnDateOf(i)]
AllPosts == {Post(i) : i \in 1..NumPosts}

\* datetime.strptime over the known formats; NoDate when none matches
ParseDate(s) ==
    IF s.fmt # "" /\ \E k \in 1..Len(KnownFormats) : KnownFormats[k] = s.fmt
    THEN s.day
    ELSE NoDate

\* The window that reaches back 3 days from today.
IsRecent_ThreeDaysBack(post, t) ==
    LET post_date == ParseDate(post.OnDate) IN
    /\ post_date # NoDate
    /\ DateOf(t) - 3 <= post_date
    /\ post_date <= DateOf(t)

\* three_days_ago.date() <= post_date.date() <= now.date()
IsRecent(post, t) ==
    LET post_date == ParseDate(post.OnDate) IN
    /\ post_date # NoDate
    /\ DateOf(t) - 2 <= post_date
    /\ post_date <= DateOf(t)

RecentPosts(posts, t) == {post \in posts : IsRecent(post, t)}

\* Candidates without the date filter: every fetched post is a candidate.
Candidates_NoFilter(posts, t) == posts

\* recent_posts: the loop over posts that keeps the posts of the last 3 days
Candidates(posts, t) == RecentPosts(posts, t)

----------------------------------------------------------------------------
(* State *)

VARIABLES
    now,              \* datetime.utcnow(), in seconds
    bots,             \* the bots table: id -> row
    platform_posts,   \* the posts the platform's GetDocuments/Posts returns
    activities,       \* the bot_activities table, a bag of rows
    memories,         \* the bot_memories table, a bag of rows
    scheduled_tasks,  \* ReactionEngine.scheduled_tasks (insertion-ordered)
    drain,            \* the running process_due_reactions call
    inserted,         \* bag of the tasks the react-to-post route scheduled
    dequeued,         \* bag of the task ids that drains have extracted
    pc,               \* where each invocation of process_bot_activity is
    inv,              \* its locals, and what it has done so far
    invocations,      \* how many invocations have started
    growth,           \* the running initialize_bots / daily_growth call
    response,         \* what the last schedule_reactions_for_post returned
    sched,            \* the TaskScheduler: its tasks and their invocations
    bot_data          \* the bot_data dict create_random_bot built last

\* the state of the population jobs, the fan-out's caller and the scheduler
jobvars == <<growth, response, sched, bot_data>>

vars == <<now, bots, platform_posts, activities, memories, scheduled_tasks,
          drain, inserted, dequeued, pc, inv, invocations, growth, response,
          sched, bot_data>>

\* The coroutines that call process_bot_activity: the drain's loop and two
\* concurrent trigger_bot_reaction requests.
Requests == {"request1", "request2"}
Callers == Requests \cup {"drain"}

ActivityRow(bot_id, type, post_id) ==
    [bot_id |-> bot_id, activity_type |-> type, target_id |-> Str(post_id)]

MemoryRow(bot_id, post_id) ==
    [bot_id |-> bot_id, context_type |-> "post", context_id |-> Str(post_id)]

\* ActivityRepository.check_activity_exists: the target_id column is a
\* String, compared with the docID under SQLite's TEXT affinity.
check_activity_exists(bot_id, type, post_id) ==
    \E row \in BagToSet(activities) :
        /\ row.bot_id = bot_id
        /\ row.activity_type = type
        /\ row.target_id = Str(post_id)

NoInv ==
    [bot_id |-> 0, name |-> "", like_probability |-> 0,
     comment_probability |-> 0, post_id |-> 0,
     has_liked |-> FALSE, has_commented |-> FALSE, action_taken |-> FALSE,
     calls |-> {}, acked |-> {}, recorded |-> {},
     like_failed |-> FALSE, comment_evaluated |-> FALSE,
     comment_failed |-> FALSE, concurrent |-> FALSE,
     status |-> "none", error |-> ""]

\* No process_due_reactions call has run yet.
NoDrain ==
    [running |-> FALSE, started_at |-> -1, due_tasks |-> <<>>,
     results |-> <<>>]

\* The population jobs of BotManager
Jobs == {"initialize_bots", "daily_growth"}

\* A population job that has not been called
IdleJob ==
    [pc |-> "idle", bot_count |-> 0, to_create |-> 0, attempts |-> 0,
     created_count |-> 0, failed |-> 0, requested |-> 0, suffixes |-> 0,
     username |-> <<>>, error |-> "", created |-> {},
     overlapped |-> FALSE, result |-> -1]

\* No population job has been called.
NoGrowth == [j \in Jobs |-> IdleJob]

\* No fan-out has returned.
NoResponse == [post_id |-> 0]

\* schedule_task(..., interval=None): the task has no interval
NoInterval == 0

\* The task has no run ahead of it.
NoRun == -1

\* Scheduler(): not started, no task registered; clock is the time in
\* seconds since the construction.
NoSched ==
    [started |-> FALSE, stopped |-> FALSE, in_flight |-> {}, clock |-> 0,
     tasks |-> <<>>]

\* create_random_bot has built no bot_data yet.
NoBotData == [category |-> ""]

\* The row of bot b, with its probabilities
BotRow(b, profile) ==
    [name |-> BotName(b),
     like_probability |-> profile[1],
     comment_probability |-> profile[2],
     last_active |-> 0]

Init ==
    /\ now = StartTime
    /\ bots = [b \in BotIds |-> BotRow(b, BotProfile(b))]
    /\ platform_posts = {}
    /\ activities = EmptyBag
    /\ memories = EmptyBag
    /\ scheduled_tasks = <<>>
    /\ drain = NoDrain
    /\ inserted = EmptyBag
    /\ dequeued = EmptyBag
    /\ pc = [p \in Callers |-> "idle"]
    /\ inv = [p \in Callers |-> NoInv]
    /\ invocations = 0
    /\ growth = NoGrowth
    /\ response = NoResponse
    /\ sched = NoSched
    /\ bot_data = NoBotData

----------------------------------------------------------------------------
(* The environment *)

\* Time passes.
Tick ==
    /\ now + TickStep <= EndTime
    /\ now' = now + TickStep
    /\ UNCHANGED <<jobvars, bots, platform_posts, activities, memories,
                   scheduled_tasks, drain, inserted, dequeued, pc, inv,
                   invocations>>

\* Somebody publishes a post on the platform.
PlatformAddPost ==
    /\ Cardinality(platform_posts) < NumPosts
    /\ platform_posts' =
           platform_posts \cup {Post(Cardinality(platform_posts) + 1)}
    /\ UNCHANGED <<now, jobvars, bots, activities, memories, scheduled_tasks, drain,
                   inserted, dequeued, pc, inv,
                   invocations>>

\* The rows of a table (a bag) that do not belong to bot_id
RowsOfOthers(table, bot_id) ==
    [row \in {r \in DOMAIN table : r.bot_id # bot_id} |-> table[row]]

\* DELETE /api/admin/bots/{bot_id}: the bot's row goes; its activities and
\* memories go with it when the repository deletes through the ORM
\* relationship (cascade="all, delete-orphan"), and stay otherwise.
delete_bot(bot_id) ==
    /\ bot_id \in DOMAIN bots
    /\ bots' = [b \in DOMAIN bots \ {bot_id} |-> bots[b]]
    /\ \/ UNCHANGED <<activities, memories>>
       \/ /\ activities' = RowsOfOthers(activities, bot_id)
          /\ memories' = RowsOfOthers(memories, bot_id)
    /\ UNCHANGED <<now, jobvars, platform_posts, scheduled_tasks, drain, inserted,
                   dequeued, pc, inv, invocations>>

\* random.uniform(0.5, 24) hours, in seconds
ActivityDelays == {SecondsPerDay \div 48, SecondsPerDay}

\* get_all_bots(limit=MAX_BOTS_COUNT): the first MAX_BOTS_COUNT bots
get_all_bots_limit(limit) ==
    {b \in DOMAIN bots : Cardinality({o \in DOMAIN bots : o <= b}) <= limit}

\* BotManager.schedule_bot_activities, the hourly job: every bot's
\* last_active is set to now plus a delay drawn for it. The loop has no
\* await.
schedule_bot_activities ==
    /\ \E hours_delay \in [get_all_bots_limit(MAX_BOTS_COUNT) -> ActivityDelays] :
        bots' = [b \in DOMAIN bots |->
                    IF b \in DOMAIN hours_delay
                    THEN [bots[b] EXCEPT !.last_active = now + hours_delay[b]]
                    ELSE bots[b]]
    /\ UNCHANGED <<now, platform_posts, activities, memories,
                   scheduled_tasks, drain, inserted, dequeued, pc, inv,
                   invocations, growth, response, sched, bot_data>>

----------------------------------------------------------------------------
(* BotManager.process_bot_activity *)

InFlight(p) == pc[p] \notin {"idle", "done"}

\* LikeDecision without the dedup check.
LikeDecision_NoDedup(has_liked, r, like_probability) ==
    r < like_probability

\* random.random() < bot.like_probability, behind the dedup check
LikeDecision(has_liked, r, like_probability) ==
    ~has_liked /\ r < like_probability

\* random.random() < bot.comment_probability, behind the dedup check
CommentDecision(has_commented, r, comment_probability) ==
    ~has_commented /\ r < comment_probability

\* the status of the returned dict
ReturnStatus(action_taken) ==
    IF action_taken THEN "success" ELSE "no_action"

\* return {...}: the coroutine ends with a result
Return(p, v, status) ==
    /\ pc' = [pc EXCEPT ![p] = "done"]
    /\ inv' = [inv EXCEPT ![p] = [v EXCEPT !.status = status]]

\* the outer except: raise BotError(str(e))
RaiseBotError(p, v, e) == Return(p, [v EXCEPT !.error = e], "error")

\* "Try to comment": the condition, then either the await of
\* generate_comment or the final return
CommentPhase(p, v) ==
    \E r \in Draws :
        LET w == [v EXCEPT !.comment_evaluated = TRUE] IN
        IF CommentDecision(w.has_commented, r, w.comment_probability)
        THEN /\ pc' = [pc EXCEPT ![p] = "generate_comment"]
             /\ inv' = [inv EXCEPT ![p] = w]
        ELSE Return(p, w, ReturnStatus(w.action_taken))

\* LikeFailed letting the exception reach the outer except.
LikeFailed_Raises(p, v) ==
    RaiseBotError(p, [v EXCEPT !.like_failed = TRUE], "like failed")

\* except Exception in the like block: logged, the code goes on
LikeFailed(p, v) == CommentPhase(p, [v EXCEPT !.like_failed = TRUE])

\* except Exception in the comment block: logged, the code goes on
CommentFailed(p, v) ==
    Return(p, [v EXCEPT !.comment_failed = TRUE],
           ReturnStatus(v.action_taken))

\* The locals of a new invocation for a bot that exists. An invocation that
\* starts while another is in flight marks both as concurrent.
Enter(p, bot_id) ==
    /\ pc' = [pc EXCEPT ![p] = "get_posts"]
    /\ inv' = [q \in Callers |->
           IF q = p
           THEN [NoInv EXCEPT
                   !.bot_id = bot_id,
                   !.name = bots[bot_id].name,
                   !.like_probability = bots[bot_id].like_probability,
                   !.comment_probability = bots[bot_id].comment_probability,
                   !.concurrent = \E o \in Callers \ {p} : InFlight(o)]
           ELSE IF InFlight(q)
                THEN [inv[q] EXCEPT !.concurrent = TRUE]
                ELSE inv[q]]

\* Start without the update of last_active.
Start_NoTouch(p, bot_id) ==
    IF bot_id \notin DOMAIN bots
    THEN /\ RaiseBotError(p, [NoInv EXCEPT !.bot_id = bot_id], "not found")
         /\ UNCHANGED bots
    ELSE /\ UNCHANGED bots
         /\ Enter(p, bot_id)

\* Lines 237-246: resolve the bot, update_last_active, await get_posts.
Start(p, bot_id) ==
    IF bot_id \notin DOMAIN bots
    THEN /\ RaiseBotError(p, [NoInv EXCEPT !.bot_id = bot_id], "not found")
         /\ UNCHANGED bots
    ELSE /\ bots' = [bots EXCEPT ![bot_id].last_active = now]
         /\ Enter(p, bot_id)

\* Lines 246-293: get_posts returns; filter, choose, dedup checks, the like
\* decision; then either the await of like_post or the comment phase.
GetPostsReturns(p) ==
    /\ pc[p] = "get_posts"
    /\ UNCHANGED <<now, jobvars, bots, platform_posts, activities, memories,
                   scheduled_tasks, drain, inserted, dequeued, invocations>>
    /\ \/ RaiseBotError(p, inv[p], "APIError")
       \/ /\ platform_posts = {}
          /\ Return(p, inv[p], "no_posts")
       \/ /\ platform_posts # {}
          /\ Candidates(platform_posts, now) = {}
          /\ Return(p, inv[p], "no_recent_posts")
       \/ \E post \in Candidates(platform_posts, now), r \in Draws :
            LET v == [inv[p] EXCEPT
                        !.post_id = post.docID,
                        !.has_liked = check_activity_exists(
                            inv[p].bot_id, "like", post.docID),
                        !.has_commented = check_activity_exists(
                            inv[p].bot_id, "comment", post.docID)]
            IN
            IF LikeDecision(v.has_liked, r, v.like_probability)
            THEN /\ pc' = [pc EXCEPT ![p] = "like_post"]
                 /\ inv' = [inv EXCEPT
                              ![p] = [v EXCEPT !.calls = @ \cup {"like"}]]
            ELSE CommentPhase(p, v)

\* LikePostReturns recording the like although like_post raised.
LikePostReturns_RecordOnFailure(p) ==
    /\ pc[p] = "like_post"
    /\ UNCHANGED <<now, jobvars, bots, platform_posts, memories, scheduled_tasks,
                   drain, inserted, dequeued, invocations>>
    /\ activities' = activities (+) SetToBag(
            {ActivityRow(inv[p].bot_id, "like", inv[p].post_id)})
    /\ \/ LikeFailed(p, [inv[p] EXCEPT !.recorded = @ \cup {"like"}])
       \/ /\ pc' = [pc EXCEPT ![p] = "generate_memory"]
          /\ inv' = [inv EXCEPT ![p].acked = @ \cup {"like"},
                                ![p].recorded = @ \cup {"like"}]

\* Lines 293-305: like_post returns; record the activity, await
\* generate_memory.
LikePostReturns(p) ==
    /\ pc[p] = "like_post"
    /\ UNCHANGED <<now, jobvars, bots, platform_posts, memories, scheduled_tasks,
                   drain, inserted, dequeued, invocations>>
    /\ \/ /\ LikeFailed(p, inv[p])                    \* APIError
          /\ UNCHANGED activities
       \/ LET v == [inv[p] EXCEPT !.acked = @ \cup {"like"}] IN
          \/ /\ LikeFailed(p, v)                      \* DatabaseError
             /\ UNCHANGED activities
          \/ /\ activities' = activities (+) SetToBag(
                     {ActivityRow(v.bot_id, "like", v.post_id)})
             /\ pc' = [pc EXCEPT ![p] = "generate_memory"]
             /\ inv' = [inv EXCEPT
                          ![p] = [v EXCEPT !.recorded = @ \cup {"like"}]]

\* Lines 305-324: generate_memory returns; store the memory, set
\* action_taken, go on to the comment.
GenerateMemoryReturns(p) ==
    /\ pc[p] = "generate_memory"
    /\ UNCHANGED <<now, jobvars, bots, platform_posts, activities, scheduled_tasks,
                   drain, inserted, dequeued, invocations>>
    /\ \/ /\ LikeFailed(p, inv[p])                    \* LLMError
          /\ UNCHANGED memories
       \/ /\ LikeFailed(p, inv[p])                    \* DatabaseError
          /\ UNCHANGED memories
       \/ /\ memories' = memories (+) SetToBag(
                  {MemoryRow(inv[p].bot_id, inv[p].post_id)})
          /\ CommentPhase(p, [inv[p] EXCEPT !.action_taken = TRUE])

\* Lines 333-345: generate_comment returns; await add_comment.
GenerateCommentReturns(p) ==
    /\ pc[p] = "generate_comment"
    /\ UNCHANGED <<now, jobvars, bots, platform_posts, activities, memories,
                   scheduled_tasks, drain, inserted, dequeued, invocations>>
    /\ \/ CommentFailed(p, inv[p])                    \* LLMError
       \/ /\ pc' = [pc EXCEPT ![p] = "add_comment"]
          /\ inv' = [inv EXCEPT ![p].calls = @ \cup {"comment"}]

\* Lines 345-368: add_comment returns; record the activity, return.
AddCommentReturns(p) ==
    /\ pc[p] = "add_comment"
    /\ UNCHANGED <<now, jobvars, bots, platform_posts, memories, scheduled_tasks,
                   drain, inserted, dequeued, invocations>>
    /\ \/ /\ CommentFailed(p, inv[p])                 \* APIError
          /\ UNCHANGED activities
       \/ LET v == [inv[p] EXCEPT !.acked = @ \cup {"comment"}] IN
          \/ /\ CommentFailed(p, v)                   \* DatabaseError
             /\ UNCHANGED activities
          \/ /\ activities' = activities (+) SetToBag(
                     {ActivityRow(v.bot_id, "comment", v.post_id)})
             /\ Return(p, [v EXCEPT !.recorded = @ \cup {"comment"},
                                    !.action_taken = TRUE],
                       "success")

----------------------------------------------------------------------------
(* POST /api/bots/{bot_id}/react *)

\* The route answers 404 for an unknown bot and changes nothing; otherwise
\* it calls process_bot_activity, which runs up to its first await. A
\* request whose invocation is "done" has returned its result. The second
\* request coroutine is the one that overlaps a running first one.
trigger_bot_reaction(p, bot_id) ==
    /\ pc[p] \in {"idle", "done"}
    /\ p = "request2" => InFlight("request1")
    /\ invocations < MaxInvocations
    /\ invocations' = invocations + 1
    /\ bot_id \in DOMAIN bots
    /\ Start(p, bot_id)
    /\ UNCHANGED <<now, jobvars, platform_posts, activities, memories,
                   scheduled_tasks, drain, inserted, dequeued>>

----------------------------------------------------------------------------
(* ReactionEngine *)

\* The fan-out is asked for when a post is published: post_id is the id of
\* the platform's newest post, post_author a bot or somebody else.
PostIdInputs ==
    {Str(post.docID) :
        post \in {q \in platform_posts :
                     \A o \in platform_posts : o.docID <= q.docID}}
AuthorInputs == {BotName(b) : b \in BotIds} \cup {"alice"}

\* random.uniform(0.3, 0.8), in hundredths
Ratios == {30, 50, 80}

\* random.randint(REACTION_DELAY_MIN, REACTION_DELAY_MAX)
Delays == {REACTION_DELAY_MIN, REACTION_DELAY_MAX}

Max(a, b) == IF a >= b THEN a ELSE b

\* bot_repository.get_all_bots(): every bot of the table
get_all_bots == DOMAIN bots

\* The bots of the table, the author among them.
Eligible_NoFilter(post_author) == get_all_bots

\* [bot for bot in bots if bot.name != post_author]
Eligible(post_author) == {b \in get_all_bots : bots[b].name # post_author}

\* The count rounded up.
VisibleCount_Ceiling(n, ratio) == (n * ratio + 99) \div 100

\* int(len(bots) * visibility_ratio)
VisibleCount(n, ratio) == (n * ratio) \div 100

\* random.sample(bots, k): k distinct bots, in any order
Samples(B, k) ==
    {s \in [1..k -> B] : \A i, j \in 1..k : i # j => s[i] # s[j]}

\* random.random() < max(bot.like_probability, bot.comment_probability)
WillReact(r, b) ==
    r < Max(bots[b].like_probability, bots[b].comment_probability)

\* The task that is due at once.
Task_NoDelay(b, post_id, t, delay) ==
    [task_id |-> <<b, post_id, t>>, bot_id |-> b, post_id |-> post_id,
     scheduled_time |-> t]

\* f"{bot.id}_{post_id}_{datetime.utcnow().timestamp()}" and the dict value
Task(b, post_id, t, delay) ==
    [task_id |-> <<b, post_id, t>>, bot_id |-> b, post_id |-> post_id,
     scheduled_time |-> t + delay]

\* self.scheduled_tasks[task_id] = {...}: a dict keeps the position of a key
\* it already holds
Put(q, task) ==
    IF \E i \in 1..Len(q) : q[i].task_id = task.task_id
    THEN [i \in 1..Len(q) |->
            IF q[i].task_id = task.task_id THEN task ELSE q[i]]
    ELSE Append(q, task)

\* The tasks one fan-out call makes, in the order of visible_bots
RECURSIVE NewTasks(_, _, _, _, _)
NewTasks(visible_bots, rs, delays, post_id, i) ==
    IF i > Len(visible_bots)
    THEN <<>>
    ELSE (IF WillReact(rs[i], visible_bots[i])
          THEN <<Task(visible_bots[i], post_id, now, delays[i])>>
          ELSE <<>>)
         \o NewTasks(visible_bots, rs, delays, post_id, i + 1)

RECURSIVE PutAll(_, _)
PutAll(q, tasks) ==
    IF tasks = <<>> THEN q ELSE PutAll(Put(q, Head(tasks)), Tail(tasks))

RECURSIVE SeqToBag(_)
SeqToBag(tasks) ==
    IF tasks = <<>>
    THEN EmptyBag
    ELSE SetToBag({Head(tasks)}) (+) SeqToBag(Tail(tasks))

\* schedule_reactions_for_post, lines 48-75: the task lists its random
\* draws can produce. The coroutine has no await.
FanOutTasks(post_id, post_author) ==
    LET B == Eligible(post_author) IN
    UNION {
        LET k == VisibleCount(Cardinality(B), ratio) IN
        UNION {
            {NewTasks(visible_bots, rs, delays, post_id, 1) :
                rs \in [1..k -> Draws], delays \in [1..k -> Delays]} :
            visible_bots \in Samples(B, k)} :
        ratio \in Ratios}

\* The extraction that takes every task, due or not.
DueTasks_All(q, t) == q

\* the tasks with task["scheduled_time"] <= now, in the dict's order
DueTasks(q, t) == SelectSeq(q, LAMBDA task : task.scheduled_time <= t)

\* The queue that keeps every task.
RemainingTasks_NoDelete(q, t) == q

\* what del self.scheduled_tasks[task_id] leaves
RemainingTasks(q, t) == SelectSeq(q, LAMBDA task : task.scheduled_time > t)

TaskIds(tasks) == {tasks[i].task_id : i \in 1..Len(tasks)}

\* The entry that reports every task as processed.
ResultEntry_AlwaysSuccess(task_id, v) ==
    [task_id |-> task_id, status |-> "success", result |-> v.status,
     error |-> ""]

\* results.append(...): the try branch or the except branch
ResultEntry(task_id, v) ==
    IF v.status = "error"
    THEN [task_id |-> task_id, status |-> "error", result |-> "",
          error |-> v.error]
    ELSE [task_id |-> task_id, status |-> "success", result |-> v.status,
          error |-> ""]

\* One ReactionEngine object, its queue in scheduled_tasks: a caller runs
\* schedule_reactions_for_post on it.
schedule_reactions_for_post(post_id, post_author) ==
    /\ \E tasks \in FanOutTasks(post_id, post_author) :
        /\ scheduled_tasks' = PutAll(scheduled_tasks, tasks)
        /\ Len(scheduled_tasks') + BagCardinality(dequeued) <= MaxTasks
    /\ UNCHANGED <<now, jobvars, bots, platform_posts, activities, memories, drain,
                   inserted, dequeued, pc, inv, invocations>>

\* process_due_reactions on a queue q, lines 97-110: the due tasks are taken
\* out of q, then the first one is processed up to its first await.
ExtractDue(q) ==
    LET due_tasks == DueTasks(q, now) IN
    /\ invocations + Len(due_tasks) <= MaxInvocations
    /\ dequeued' = dequeued (+) SeqToBag(
           [i \in 1..Len(due_tasks) |-> due_tasks[i].task_id])
    /\ IF due_tasks = <<>>
       THEN /\ drain' = [running |-> FALSE, started_at |-> now,
                         due_tasks |-> <<>>, results |-> <<>>]
            /\ UNCHANGED <<bots, pc, inv, invocations>>
       ELSE /\ drain' = [running |-> TRUE, started_at |-> now,
                         due_tasks |-> due_tasks, results |-> <<>>]
            /\ invocations' = invocations + 1
            /\ Start("drain", Head(due_tasks).bot_id)

\* The periodic drain of the one ReactionEngine object.
process_due_reactions ==
    /\ ~drain.running
    /\ ExtractDue(scheduled_tasks)
    /\ scheduled_tasks' = RemainingTasks(scheduled_tasks, now)
    /\ UNCHANGED <<now, jobvars, platform_posts, activities, memories, inserted>>

\* The drain that an exception of process_bot_activity ends: the tasks after
\* the failed one are dropped.
process_due_reactions_next_Raises ==
    /\ drain.running
    /\ pc["drain"] = "done"
    /\ LET task == Head(drain.due_tasks)
           rest == IF inv["drain"].status = "error"
                   THEN <<>> ELSE Tail(drain.due_tasks)
           results == Append(drain.results,
                             ResultEntry(task.task_id, inv["drain"]))
       IN
       IF rest = <<>>
       THEN /\ drain' = [drain EXCEPT !.running = FALSE,
                                      !.due_tasks = <<>>,
                                      !.results = results]
            /\ pc' = [pc EXCEPT !["drain"] = "idle"]
            /\ inv' = [inv EXCEPT !["drain"] = NoInv]
            /\ UNCHANGED <<bots, invocations>>
       ELSE /\ drain' = [drain EXCEPT !.due_tasks = rest,
                                      !.results = results]
            /\ invocations' = invocations + 1
            /\ Start("drain", Head(rest).bot_id)
    /\ UNCHANGED <<now, jobvars, platform_posts, activities, memories,
                   scheduled_tasks, inserted, dequeued>>

\* Lines 110-119: process_bot_activity has returned or raised; the result is
\* appended and the loop goes on with the next task, or returns results.
process_due_reactions_next ==
    /\ drain.running
    /\ pc["drain"] = "done"
    /\ LET task == Head(drain.due_tasks)
           rest == Tail(drain.due_tasks)
           results == Append(drain.results,
                             ResultEntry(task.task_id, inv["drain"]))
       IN
       IF rest = <<>>
       THEN /\ drain' = [drain EXCEPT !.running = FALSE,
                                      !.due_tasks = <<>>,
                                      !.results = results]
            /\ pc' = [pc EXCEPT !["drain"] = "idle"]
            /\ inv' = [inv EXCEPT !["drain"] = NoInv]
            /\ UNCHANGED <<bots, invocations>>
       ELSE /\ drain' = [drain EXCEPT !.due_tasks = rest,
                                      !.results = results]
            /\ invocations' = invocations + 1
            /\ Start("drain", Head(rest).bot_id)
    /\ UNCHANGED <<now, jobvars, platform_posts, activities, memories,
                   scheduled_tasks, inserted, dequeued>>

----------------------------------------------------------------------------
(* The engines the application builds *)

\* ReactionEngine.__init__: self.scheduled_tasks = {}
NewEngineTasks == <<>>

\* POST /api/bots/react-to-post: the route builds a ReactionEngine and runs
\* schedule_reactions_for_post on it; the engine is a local of the route.
schedule_reactions_to_post(post_id, post_author) ==
    /\ \E tasks \in FanOutTasks(post_id, post_author) :
        /\ BagCardinality(inserted) + Len(tasks) <= MaxTasks
        /\ LET local_tasks == PutAll(NewEngineTasks, tasks) IN
           inserted' = inserted (+) SeqToBag(local_tasks)
    /\ UNCHANGED <<now, jobvars, bots, platform_posts, activities, memories,
                   scheduled_tasks, drain, dequeued, pc, inv, invocations>>

\* schedule_reactions_for_post, lines 48-89, for a visibility ratio drawn
\* from ratios: what the call can return, with the draws it made and the
\* tasks it put in the queue.
FanOutResults(post_id, post_author, ratios) ==
    LET B == Eligible(post_author) IN
    UNION {
        LET k == VisibleCount(Cardinality(B), ratio) IN
        UNION {
            {LET tasks == NewTasks(visible_bots, rs, delays, post_id, 1) IN
             [post_id |-> post_id,
              total_bots |-> Cardinality(B),
              visible_bots |-> Len(visible_bots),
              scheduled_reactions |-> Len(tasks),
              post_author |-> post_author,
              ratio |-> ratio,
              visible |-> visible_bots,
              will_react |-> [i \in 1..k |-> WillReact(rs[i], visible_bots[i])],
              tasks |-> tasks,
              called_at |-> now] :
                rs \in [1..k -> Draws], delays \in [1..k -> Delays]} :
            visible_bots \in Samples(B, k)} :
        ratio \in ratios}

\* random.uniform patched to return 1.0
ForcedRatios == {100}

\* A caller builds a ReactionEngine, runs schedule_reactions_for_post on it
\* and keeps what it returns.
schedule_reactions(post_id, post_author, ratios) ==
    /\ \E result \in FanOutResults(post_id, post_author, ratios) :
        response' = [result EXCEPT
                        !.tasks = PutAll(NewEngineTasks, result.tasks)]
    /\ UNCHANGED <<now, bots, platform_posts, activities, memories,
                   scheduled_tasks, drain, inserted, dequeued, pc, inv,
                   invocations, growth, sched, bot_data>>

\* datetime.isoformat(): the date and the time of the day
IsoFormat(t) == [date |-> DateOf(t), seconds |-> t % SecondsPerDay]

\* get_pending_reactions_count: len(self.scheduled_tasks)
get_pending_reactions_count(q) == Len(q)

\* get_scheduled_reactions: one entry per task of the dict, in its order
get_scheduled_reactions(q) ==
    [i \in 1..Len(q) |->
        [task_id |-> q[i].task_id, bot_id |-> q[i].bot_id,
         post_id |-> q[i].post_id,
         scheduled_time |-> IsoFormat(q[i].scheduled_time)]]

\* GET /api/monitoring/reactions: the route builds a ReactionEngine and
\* returns the count and the list of its scheduled_tasks.
get_pending_reactions ==
    /\ response' =
           [pending_count |-> get_pending_reactions_count(NewEngineTasks),
            scheduled_reactions |-> get_scheduled_reactions(NewEngineTasks)]
    /\ UNCHANGED <<now, bots, platform_posts, activities, memories,
                   scheduled_tasks, drain, inserted, dequeued, pc, inv,
                   invocations, growth, sched, bot_data>>

\* main.process_reactions, the job of every 60 seconds: it builds a
\* ReactionEngine and runs process_due_reactions on it.
process_reactions ==
    /\ ~drain.running
    /\ ExtractDue(NewEngineTasks)
    /\ UNCHANGED <<now, jobvars, platform_posts, activities, memories,
                   scheduled_tasks, inserted>>

----------------------------------------------------------------------------
(* Bot synthesis: usernames and probabilities *)

\* A username is the sequence of its characters.
Min(a, b) == IF a < b THEN a ELSE b

\* username[:n]
Truncate(username, n) == SubSeq(username, 1, Min(n, Len(username)))

\* str.strip()
RECURSIVE LStrip(_)
LStrip(text) ==
    IF text # <<>> /\ Head(text) = " " THEN LStrip(Tail(text)) ELSE text

RECURSIVE RStrip(_)
RStrip(text) ==
    IF text # <<>> /\ text[Len(text)] = " "
    THEN RStrip(SubSeq(text, 1, Len(text) - 1))
    ELSE text

Strip(text) == RStrip(LStrip(text))

\* str.replace(old, new) for a pattern old of one or two characters
RECURSIVE Replace(_, _, _)
Replace(text, old, new) ==
    IF Len(text) < Len(old)
    THEN text
    ELSE IF SubSeq(text, 1, Len(old)) = old
         THEN new \o Replace(SubSeq(text, Len(old) + 1, Len(text)), old, new)
         ELSE <<Head(text)>> \o Replace(Tail(text), old, new)

\* What the language model can answer to the username prompt
LLMTexts ==
    { <<" ", "@", "n", "i", "g", "h", "t", " ", "o", "w", "l", " ", "r", "a",
        "d", "i", "o", "s">> }

USERNAME_MAX_LENGTH == 15
USERNAME_STEM_LENGTH == 12
MAX_USERNAME_ATTEMPTS == 10
MAX_SUFFIX_ATTEMPTS == 10

\* generate_bot_username, lines 228-233: the clean-up of the model's answer
CleanUsername(text) ==
    Truncate(Replace(Replace(Strip(text), <<" ">>, <<"_">>), <<"@">>, <<>>),
             USERNAME_MAX_LENGTH)

\* str(uuid.uuid4())[:2]: two hexadecimal digits
HexSuffixes == { <<"0", "0">>, <<"f", "f">> }

\* f"{username[:12]}_{str(uuid.uuid4())[:2]}"
WithSuffix(username, suffix) ==
    Truncate(username, USERNAME_STEM_LENGTH) \o <<"_">> \o suffix

\* create_random_bot, line 133: .replace("/n", "_").replace(" ", "_")
SanitizeUsername(username) ==
    Replace(Replace(username, <<"/", "n">>, <<"_">>), <<" ">>, <<"_">>)

\* The lookup that finds no bot.
get_bot_by_name_Never(username) == FALSE

\* bot_repository.get_bot_by_name(username) finds a bot
get_bot_by_name(username) ==
    \E b \in DOMAIN bots : bots[b].name = username

\* The fallback loop of generate_unique_bot_username, lines 256-260, which
\* has no await: the names its remaining attempts can return after the
\* usernames the attempts so far may have produced, and Exhausted when every
\* attempt can collide.
Exhausted == [found |-> FALSE, username |-> <<>>, suffixes |-> 0]

RECURSIVE SuffixOutcomes(_, _)
SuffixOutcomes(usernames, used) ==
    IF used = MAX_SUFFIX_ATTEMPTS
    THEN {[Exhausted EXCEPT !.suffixes = used]}
    ELSE LET candidates == {WithSuffix(username, suffix) :
                               username \in usernames, suffix \in HexSuffixes}
             taken == {c \in candidates : get_bot_by_name(c)}
         IN
         {[found |-> TRUE, username |-> c, suffixes |-> used + 1] :
             c \in candidates \ taken}
         \cup (IF taken = {} THEN {} ELSE SuffixOutcomes(taken, used + 1))

\* settings.BOT_CATEGORIES: the baseline probabilities, in hundredths
BOT_CATEGORIES ==
    [fan         |-> [like_probability |-> 80, comment_probability |-> 50,
                      follow_probability |-> 70, unfollow_probability |-> 10,
                      repost_probability |-> 20],
     hater       |-> [like_probability |-> 10, comment_probability |-> 40,
                      follow_probability |-> 20, unfollow_probability |-> 60,
                      repost_probability |-> 5],
     silent      |-> [like_probability |-> 40, comment_probability |-> 10,
                      follow_probability |-> 30, unfollow_probability |-> 20,
                      repost_probability |-> 5],
     random      |-> [like_probability |-> 50, comment_probability |-> 30,
                      follow_probability |-> 40, unfollow_probability |-> 40,
                      repost_probability |-> 10],
     neutral     |-> [like_probability |-> 50, comment_probability |-> 30,
                      follow_probability |-> 50, unfollow_probability |-> 30,
                      repost_probability |-> 10],
     humorous    |-> [like_probability |-> 70, comment_probability |-> 60,
                      follow_probability |-> 60, unfollow_probability |-> 20,
                      repost_probability |-> 15],
     provocative |-> [like_probability |-> 30, comment_probability |-> 70,
                      follow_probability |-> 40, unfollow_probability |-> 50,
                      repost_probability |-> 10],
     role_player |-> [like_probability |-> 60, comment_probability |-> 50,
                      follow_probability |-> 50, unfollow_probability |-> 30,
                      repost_probability |-> 15]]

\* list(BOT_CATEGORIES.keys())
Categories == DOMAIN BOT_CATEGORIES

ProbabilityFields ==
    {"like_probability", "comment_probability", "follow_probability",
     "unfollow_probability", "repost_probability"}

\* random.uniform(-0.1, 0.1), and random.uniform(-0.05, 0.05) for reposts:
\* the largest variation, in hundredths
JitterBound(field) == IF field = "repost_probability" THEN 5 ELSE 10

JitterRange(field) == (0 - JitterBound(field))..JitterBound(field)

\* the bounds of lines 161-165, in hundredths
LowerBound(field) == IF field = "repost_probability" THEN 0 ELSE 10
UpperBound(field) == IF field = "repost_probability" THEN 30 ELSE 90

\* The probability with its variation, not clamped.
Probability_NoClamp(category, field, jitter) ==
    BOT_CATEGORIES[category][field] + jitter

\* lines 147-165: the baseline of the category, the variation, the clamp
Probability(category, field, jitter) ==
    Max(LowerBound(field),
        Min(UpperBound(field), BOT_CATEGORIES[category][field] + jitter))

\* the five probabilities of bot_data
Probabilities(category, jitters) ==
    [field \in ProbabilityFields |->
        Probability(category, field, jitters[field])]

\* The variations drawn for one bot: one field takes every value of its
\* range while each other field is at an end of its own.
JitterVectors ==
    UNION {
        { [g \in ProbabilityFields |->
              IF g = field THEN x ELSE ends[g] * JitterBound(g)] :
          x \in JitterRange(field), ends \in [ProbabilityFields -> {-1, 1}] } :
        field \in ProbabilityFields }

\* create_random_bot, line 124 and lines 154-158: the category and the
\* variations that have been drawn
DrawnBotData(category, jitters) ==
    [category |-> category, jitters |-> jitters]

\* create_random_bot, lines 145-182: the probabilities are computed from the
\* draws and bot_data is built.
build_bot_data ==
    /\ bot_data # NoBotData
    /\ "probabilities" \notin DOMAIN bot_data
    /\ bot_data' =
           [category |-> bot_data.category, jitters |-> bot_data.jitters,
            probabilities |->
                Probabilities(bot_data.category, bot_data.jitters)]
    /\ UNCHANGED <<now, bots, platform_posts, activities, memories,
                   scheduled_tasks, drain, inserted, dequeued, pc, inv,
                   invocations, growth, response, sched>>

----------------------------------------------------------------------------
(* BotManager: initialize_bots, daily_growth and create_random_bot *)

\* bot_repository.count_bots()
count_bots == Cardinality(DOMAIN bots)

\* The names of the bots the store holds when the application starts
ExistingNames ==
    << <<"n", "i", "g", "h", "t", "_", "o", "w", "l", "_", "r", "a", "d",
         "i", "o">>,
       <<"n", "i", "g", "h", "t", "_", "o", "w", "l", "_", "r", "a", "_",
         "0", "0">>,
       <<"z", "e", "d">>,
       <<"a", "n", "n">>,
       <<"b", "o", "b">>,
       <<"c", "y">>,
       <<"d", "e", "e">> >>

\* The stores the application can start with: up to one bot above the cap
InitialCounts == 0..Min(MAX_BOTS_COUNT + 1, Len(ExistingNames))

ExistingBots(n) ==
    [b \in 1..n |->
        [name |-> ExistingNames[b], like_probability |-> 50,
         comment_probability |-> 50, last_active |-> 0]]

\* the names of ExistingNames that no generated username can collide with
UnrelatedNames == SubSeq(ExistingNames, 3, Len(ExistingNames))

\* a store whose bots have the names given
BotsNamed(names) ==
    [b \in 1..Len(names) |->
        [name |-> names[b], like_probability |-> 50,
         comment_probability |-> 50, last_active |-> 0]]

\* The category and the variations drawn for the bots the jobs create; the
\* jobs never read them.
PopulationDraw ==
    DrawnBotData("hater", [g \in ProbabilityFields |-> 0 - JitterBound(g)])

\* The row create_bot(bot_data) inserts, with the columns the model reads
NewBotRow(username, draw) ==
    LET p == Probabilities(draw.category, draw.jitters) IN
    [name |-> username,
     like_probability |-> p["like_probability"],
     comment_probability |-> p["comment_probability"],
     last_active |-> now]

\* The draw used as it is.
GrowthTarget_NoClamp(growth_draw, bot_count) == growth_draw

\* daily_growth, lines 97-98: min(growth, MAX_BOTS_COUNT - bot_count)
GrowthTarget(growth_draw, bot_count) ==
    Min(growth_draw, MAX_BOTS_COUNT - bot_count)

Running(j) == growth[j].pc \notin {"idle", "returned"}

\* The loop of lines 73-78 and 103-108 after an attempt has ended: the next
\* create_random_bot runs up to its first await, or the job returns.
NextAttempt(j, v) ==
    IF v.attempts < v.to_create
    THEN growth' = [growth EXCEPT ![j] =
             [v EXCEPT !.pc = "username", !.attempts = @ + 1,
                       !.requested = 1, !.username = <<>>]]
    ELSE growth' = [growth EXCEPT ![j] =
             [v EXCEPT !.pc = "returned", !.username = <<>>,
                       !.requested = 0, !.suffixes = 0,
                       !.result = v.created_count]]

\* create_random_bot has returned: created_count += 1
AttemptSucceeded(j, v) ==
    NextAttempt(j, [v EXCEPT !.created_count = @ + 1, !.error = ""])

\* The failure that is raised to the caller of the job.
AttemptFailed_Raises(j, v, error) ==
    growth' = [growth EXCEPT ![j] =
        [v EXCEPT !.pc = "returned", !.error = error, !.username = <<>>]]

\* create_random_bot has raised BotError: the except branch logs it
AttemptFailed(j, v, error) ==
    NextAttempt(j, [v EXCEPT !.failed = @ + 1, !.error = error])

\* A job is called: it counts the bots and runs up to its first await.
CallJob(j, bot_count, to_create) ==
    LET overlap == \E k \in Jobs \ {j} : Running(k)
        called == [k \in Jobs |->
            IF k = j
            THEN [IdleJob EXCEPT !.bot_count = bot_count,
                                 !.to_create = to_create,
                                 !.overlapped = overlap]
            ELSE [growth[k] EXCEPT !.overlapped = @ \/ Running(k)]]
        v == called[j]
    IN
    /\ growth[j].pc = "idle"
    /\ IF to_create > 0
       THEN growth' = [called EXCEPT ![j] =
                [v EXCEPT !.pc = "username", !.attempts = 1,
                          !.requested = 1]]
       ELSE growth' = [called EXCEPT ![j] =
                [v EXCEPT !.pc = "returned", !.result = 0]]
    /\ UNCHANGED <<now, bots, platform_posts, activities, memories,
                   scheduled_tasks, drain, inserted, dequeued, pc, inv,
                   invocations, response, sched, bot_data>>

\* BotManager.initialize_bots, lines 66-73
initialize_bots ==
    LET bot_count == count_bots IN
    IF bot_count < INITIAL_BOTS_COUNT
    THEN CallJob("initialize_bots", bot_count, INITIAL_BOTS_COUNT - bot_count)
    ELSE CallJob("initialize_bots", bot_count, 0)

\* BotManager.daily_growth, lines 91-103
daily_growth ==
    LET bot_count == count_bots IN
    IF bot_count >= MAX_BOTS_COUNT
    THEN CallJob("daily_growth", bot_count, 0)
    ELSE \E growth_draw \in DAILY_BOTS_GROWTH_MIN..DAILY_BOTS_GROWTH_MAX :
             CallJob("daily_growth", bot_count,
                     GrowthTarget(growth_draw, bot_count))

\* generate_unique_bot_username: generate_bot_username has returned a
\* candidate or has raised. A free candidate is returned; a taken one is
\* followed by the next request, and the tenth by the suffix loop.
GenerateUsernameReturns(j) ==
    LET v == growth[j] IN
    /\ v.pc = "username"
    /\ \/ AttemptFailed(j, [v EXCEPT !.suffixes = 0], "LLMError")
       \/ \E text \in LLMTexts :
            LET username == CleanUsername(text) IN
            IF ~get_bot_by_name(username)
            THEN growth' = [growth EXCEPT ![j] =
                     [v EXCEPT !.pc = "profile", !.username = username,
                               !.suffixes = 0]]
            ELSE IF v.requested < MAX_USERNAME_ATTEMPTS
            THEN growth' = [growth EXCEPT ![j] =
                     [v EXCEPT !.requested = @ + 1]]
            ELSE \E o \in SuffixOutcomes({username}, 0) :
                     IF o.found
                     THEN growth' = [growth EXCEPT ![j] =
                              [v EXCEPT !.pc = "profile",
                                        !.username = o.username,
                                        !.suffixes = o.suffixes]]
                     ELSE AttemptFailed(
                              j, [v EXCEPT !.suffixes = o.suffixes],
                              "exhausted")
    /\ UNCHANGED <<now, bots, platform_posts, activities, memories,
                   scheduled_tasks, drain, inserted, dequeued, pc, inv,
                   invocations, response, sched, bot_data>>

\* create_random_bot, lines 133-184: the name, the description and the
\* avatar have been generated, or one of them has failed; then create_bot
\* inserts the row, which the unique index on bots.name can refuse.
GenerateProfileReturns(j) ==
    LET v == growth[j]
        username == SanitizeUsername(v.username)
        id == count_bots + 1
    IN
    /\ v.pc = "profile"
    /\ \/ /\ AttemptFailed(j, v, "LLMError")
          /\ UNCHANGED bots
       \/ IF get_bot_by_name(username)
          THEN /\ AttemptFailed(j, v, "DatabaseError")
               /\ UNCHANGED bots
          ELSE /\ bots' = [b \in DOMAIN bots \cup {id} |->
                      IF b = id THEN NewBotRow(username, PopulationDraw)
                      ELSE bots[b]]
               /\ growth' = [growth EXCEPT ![j] =
                      [v EXCEPT !.pc = "add_bot", !.username = username,
                                !.created = @ \cup {id}]]
    /\ UNCHANGED <<now, platform_posts, activities, memories,
                   scheduled_tasks, drain, inserted, dequeued, pc, inv,
                   invocations, response, sched, bot_data>>

\* create_random_bot, lines 201-207: api_client.add_bot has returned or has
\* raised after its retries.
AddBotReturns(j) ==
    LET v == growth[j] IN
    /\ v.pc = "add_bot"
    /\ \/ AttemptSucceeded(j, v)
       \/ AttemptFailed(j, v, "APIError")
    /\ UNCHANGED <<now, bots, platform_posts, activities, memories,
                   scheduled_tasks, drain, inserted, dequeued, pc, inv,
                   invocations, response, sched, bot_data>>

----------------------------------------------------------------------------
(* The Scheduler and the tasks main.py registers with it *)

\* initialize_background_tasks: task_id -> delay and interval, in seconds
BackgroundTasks ==
    [initialize_bots         |-> [delay |-> 5, interval |-> NoInterval],
     daily_bot_growth        |-> [delay |-> 3600, interval |-> 86400],
     process_reactions       |-> [delay |-> 30, interval |-> 60],
     schedule_bot_activities |-> [delay |-> 300, interval |-> 3600]]

\* schedule_task(func, delay, interval, task_id) at time t
RegisteredTask(delay, interval, t) ==
    [delay |-> delay, interval |-> interval, registered_at |-> t,
     next_run |-> t + delay, executing |-> 0, invocations |-> 0,
     skipped |-> 0, invoked_at |-> NoRun, outcome |-> "none"]

\* startup_event, lines 57-61: the scheduler is started and the four tasks
\* are registered.
startup_event ==
    /\ ~sched.started
    /\ sched' = [sched EXCEPT
           !.started = TRUE,
           !.tasks = [id \in DOMAIN BackgroundTasks |->
               RegisteredTask(BackgroundTasks[id].delay,
                              BackgroundTasks[id].interval, sched.clock)]]
    /\ UNCHANGED <<now, bots, platform_posts, activities, memories,
                   scheduled_tasks, drain, inserted, dequeued, pc, inv,
                   invocations, growth, response, bot_data>>

\* the runs ahead, as times
RunsAhead == {sched.tasks[id].next_run : id \in DOMAIN sched.tasks} \ {NoRun}

\* Time passes up to the next run of a task; a run that is due is handled
\* before time passes.
AdvanceClock ==
    /\ sched.started
    /\ \A t \in RunsAhead : t > sched.clock
    /\ \E t \in RunsAhead :
        /\ \A o \in RunsAhead : t <= o
        /\ t <= MaxClock
        /\ sched' = [sched EXCEPT !.clock = t]
    /\ UNCHANGED <<now, bots, platform_posts, activities, memories,
                   scheduled_tasks, drain, inserted, dequeued, pc, inv,
                   invocations, growth, response, bot_data>>

\* The dispatch that goes on after stop().
Dispatching_AfterStop(s) == s.started

\* start() has begun the dispatch and stop() has not ended it
Dispatching(s) == s.started /\ ~s.stopped

\* stop(): no tick fires any more; the invocations that are executing, noted
\* in in_flight, are left as they are.
stop(s) ==
    [s EXCEPT !.stopped = TRUE,
              !.in_flight = {id \in DOMAIN s.tasks : s.tasks[id].executing > 0}]

\* shutdown_event, lines 64-70: the scheduler is stopped.
shutdown_event ==
    /\ sched.started
    /\ ~sched.stopped
    /\ sched' = stop(sched)
    /\ UNCHANGED <<now, bots, platform_posts, activities, memories,
                   scheduled_tasks, drain, inserted, dequeued, pc, inv,
                   invocations, growth, response, bot_data>>

\* The tick that starts an invocation whatever is executing.
ShouldSkip_Never(task) == FALSE

\* the previous invocation of the task id has not finished
ShouldSkip(task) == task.executing > 0

\* The next run of a task that is repeated although it has no interval.
NextRun_Repeat(task, t) == t + task.delay

\* the run after the tick at time t: one interval later, or none
NextRun(task, t) ==
    IF task.interval = NoInterval THEN NoRun ELSE t + task.interval

\* The tick of a task fires: the task function is invoked, or the tick is
\* skipped because the previous invocation is still executing.
TickFires(id) ==
    /\ Dispatching(sched)
    /\ id \in DOMAIN sched.tasks
    /\ LET task == sched.tasks[id]
           ticked == [task EXCEPT !.next_run = NextRun(task, sched.clock)]
       IN
       /\ task.next_run = sched.clock
       /\ IF ShouldSkip(task)
          THEN sched' = [sched EXCEPT !.tasks[id] =
                   [ticked EXCEPT !.skipped = @ + 1]]
          ELSE sched' = [sched EXCEPT !.tasks[id] =
                   [ticked EXCEPT !.executing = @ + 1,
                                  !.invocations = @ + 1,
                                  !.invoked_at = sched.clock]]
    /\ UNCHANGED <<now, bots, platform_posts, activities, memories,
                   scheduled_tasks, drain, inserted, dequeued, pc, inv,
                   invocations, growth, response, bot_data>>

\* The exception that ends the task for good.
InvocationRaised_Cancels(task) ==
    [task EXCEPT !.executing = @ - 1, !.outcome = "raised",
                 !.next_run = NoRun]

\* the scheduler catches and logs what the task function raised
InvocationRaised(task) ==
    [task EXCEPT !.executing = @ - 1, !.outcome = "raised"]

\* An invocation ends: the task function returns (the functions of main.py
\* log what their try block raised and return), or it raises to the
\* scheduler.
InvocationReturns(id) ==
    /\ id \in DOMAIN sched.tasks
    /\ sched.tasks[id].executing > 0
    /\ sched' = [sched EXCEPT !.tasks[id] =
           [@ EXCEPT !.executing = @ - 1, !.outcome = "returned"]]
    /\ UNCHANGED <<now, bots, platform_posts, activities, memories,
                   scheduled_tasks, drain, inserted, dequeued, pc, inv,
                   invocations, growth, response, bot_data>>

InvocationRaises(id) ==
    /\ id \in DOMAIN sched.tasks
    /\ sched.tasks[id].executing > 0
    /\ sched' = [sched EXCEPT !.tasks[id] = InvocationRaised(@)]
    /\ UNCHANGED <<now, bots, platform_posts, activities, memories,
                   scheduled_tasks, drain, inserted, dequeued, pc, inv,
                   invocations, growth, response, bot_data>>

----------------------------------------------------------------------------
(* Specifications *)

Next ==
    \/ Tick
    \/ PlatformAddPost
    \/ \E p \in Requests, b \in BotIds : trigger_bot_reaction(p, b)
    \/ \E p \in Requests : GetPostsReturns(p)
    \/ \E p \in Requests : LikePostReturns(p)
    \/ \E p \in Requests : GenerateMemoryReturns(p)
    \/ \E p \in Requests : GenerateCommentReturns(p)
    \/ \E p \in Requests : AddCommentReturns(p)

Spec == Init /\ [][Next]_vars

\* One ReactionEngine object that lives as long as the process: the fan-out
\* and the drain work on its queue. The platform holds its posts from the
\* start, and the first two bots of the table are bots that react.
EngineProfile(b) == BotProfile(2 * b - 1)

EngineInit ==
    /\ now = StartTime
    /\ bots = [b \in BotIds |-> BotRow(b, EngineProfile(b))]
    /\ platform_posts = AllPosts
    /\ activities = EmptyBag
    /\ memories = EmptyBag
    /\ scheduled_tasks = <<>>
    /\ drain = NoDrain
    /\ inserted = EmptyBag
    /\ dequeued = EmptyBag
    /\ pc = [p \in Callers |-> "idle"]
    /\ inv = [p \in Callers |-> NoInv]
    /\ invocations = 0
    /\ growth = NoGrowth
    /\ response = NoResponse
    /\ sched = NoSched
    /\ bot_data = NoBotData

EngineNext ==
    \/ Tick
    \/ \E b \in BotIds : delete_bot(b)
    \/ \E post_id \in PostIdInputs, post_author \in AuthorInputs :
           schedule_reactions_for_post(post_id, post_author)
    \/ process_due_reactions
    \/ process_due_reactions_next
    \/ GetPostsReturns("drain")
    \/ LikePostReturns("drain")
    \/ GenerateMemoryReturns("drain")
    \/ GenerateCommentReturns("drain")
    \/ AddCommentReturns("drain")

EngineSpec == EngineInit /\ [][EngineNext]_vars

\* The routes and the job as routes/bots.py, routes/monitoring.py and main.py
\* write them.
AppNext ==
    \/ Tick
    \/ PlatformAddPost
    \/ \E post_id \in PostIdInputs, post_author \in AuthorInputs :
           schedule_reactions_to_post(post_id, post_author)
    \/ process_reactions
    \/ get_pending_reactions

AppSpec == Init /\ [][AppNext]_vars

\* The fan-out of a new engine and what it returns, for the bots of Init and
\* for the bots of EngineInit, with the ratio as the code draws it and with
\* the ratio forced to 1.0.
PostIds == {Str(post.docID) : post \in platform_posts}

FanOutInit ==
    /\ now = StartTime
    /\ \/ bots = [b \in BotIds |-> BotRow(b, BotProfile(b))]
       \/ bots = [b \in BotIds |-> BotRow(b, EngineProfile(b))]
    /\ platform_posts = AllPosts
    /\ activities = EmptyBag
    /\ memories = EmptyBag
    /\ scheduled_tasks = <<>>
    /\ drain = NoDrain
    /\ inserted = EmptyBag
    /\ dequeued = EmptyBag
    /\ pc = [p \in Callers |-> "idle"]
    /\ inv = [p \in Callers |-> NoInv]
    /\ invocations = 0
    /\ growth = NoGrowth
    /\ response = NoResponse
    /\ sched = NoSched
    /\ bot_data = NoBotData

\* The engine of a call is new, so a call does not depend on the calls
\* before it: a behaviour makes one call, at any time.
FanOutNext ==
    \/ Tick
    \/ /\ response = NoResponse
       /\ \E post_id \in PostIds, post_author \in AuthorInputs :
              schedule_reactions(post_id, post_author, Ratios)
    \/ /\ response = NoResponse
       /\ \E post_id \in PostIds, post_author \in AuthorInputs :
              schedule_reactions(post_id, post_author, ForcedRatios)

FanOutSpec == FanOutInit /\ [][FanOutNext]_vars

\* The population jobs, started on a store that holds some bots already and
\* run one after the other, in either order.
GrowthInit ==
    /\ now = StartTime
    /\ \E n \in InitialCounts : bots = ExistingBots(n)
    /\ platform_posts = {}
    /\ activities = EmptyBag
    /\ memories = EmptyBag
    /\ scheduled_tasks = <<>>
    /\ drain = NoDrain
    /\ inserted = EmptyBag
    /\ dequeued = EmptyBag
    /\ pc = [p \in Callers |-> "idle"]
    /\ inv = [p \in Callers |-> NoInv]
    /\ invocations = 0
    /\ growth = NoGrowth
    /\ response = NoResponse
    /\ sched = NoSched
    /\ bot_data = NoBotData

\* no population job is between its call and its return
NoJobRunning == \A j \in Jobs : ~Running(j)

GrowthNext ==
    \/ NoJobRunning /\ initialize_bots
    \/ NoJobRunning /\ daily_growth
    \/ \E j \in Jobs : GenerateUsernameReturns(j)
    \/ \E j \in Jobs : GenerateProfileReturns(j)
    \/ \E j \in Jobs : AddBotReturns(j)

GrowthSpec == GrowthInit /\ [][GrowthNext]_vars

\* The scheduler with the tasks of main.py.
SchedNext ==
    \/ startup_event
    \/ AdvanceClock
    \/ \E id \in DOMAIN BackgroundTasks : TickFires(id)
    \/ \E id \in DOMAIN BackgroundTasks : InvocationReturns(id)
    \/ \E id \in DOMAIN BackgroundTasks : InvocationRaises(id)

SchedSpec == Init /\ [][SchedNext]_vars

\* The event loop runs the application's startup, lets time pass and fires
\* the timers that are due.
SchedLiveSpec ==
    /\ Init
    /\ [][SchedNext]_vars
    /\ WF_vars(startup_event)
    /\ WF_vars(AdvanceClock)
    /\ WF_vars(\E id \in DOMAIN BackgroundTasks : TickFires(id))

\* The scheduler with the tasks of main.py and the shutdown of the
\* application, which can come at any moment after the startup.
ShutdownNext ==
    \/ startup_event
    \/ shutdown_event
    \/ AdvanceClock
    \/ \E id \in DOMAIN BackgroundTasks : TickFires(id)
    \/ \E id \in DOMAIN BackgroundTasks : InvocationReturns(id)
    \/ \E id \in DOMAIN BackgroundTasks : InvocationRaises(id)

\* The event loop keeps running a task function that was invoked until it
\* returns or raises.
ShutdownSpec ==
    /\ Init
    /\ [][ShutdownNext]_vars
    /\ WF_vars(\E id \in DOMAIN BackgroundTasks :
                   InvocationReturns(id) \/ InvocationRaises(id))

\* process_bot_activity, one invocation after the other, on a platform that
\* holds a post of every kind of OnDate: in the window, too old, in the
\* future, in an unknown format and missing.
PostsOfEveryKind == {Post(i) : i \in 1..6}

WindowInit ==
    /\ now = StartTime
    /\ bots = [b \in BotIds |-> BotRow(b, BotProfile(b))]
    /\ platform_posts = PostsOfEveryKind
    /\ activities = EmptyBag
    /\ memories = EmptyBag
    /\ scheduled_tasks = <<>>
    /\ drain = NoDrain
    /\ inserted = EmptyBag
    /\ dequeued = EmptyBag
    /\ pc = [p \in Callers |-> "idle"]
    /\ inv = [p \in Callers |-> NoInv]
    /\ invocations = 0
    /\ growth = NoGrowth
    /\ response = NoResponse
    /\ sched = NoSched
    /\ bot_data = NoBotData

WindowNext ==
    \/ Tick
    \/ \E b \in BotIds : trigger_bot_reaction("request1", b)
    \/ GetPostsReturns("request1")
    \/ LikePostReturns("request1")
    \/ GenerateMemoryReturns("request1")
    \/ GenerateCommentReturns("request1")
    \/ AddCommentReturns("request1")

WindowSpec == WindowInit /\ [][WindowNext]_vars

\* One ReactionEngine object whose fan-out is asked for any post of the
\* platform, and its drain.
TargetNext ==
    \/ Tick
    \/ \E post_id \in PostIds, post_author \in AuthorInputs :
           schedule_reactions_for_post(post_id, post_author)
    \/ process_due_reactions
    \/ process_due_reactions_next
    \/ GetPostsReturns("drain")
    \/ LikePostReturns("drain")
    \/ GenerateMemoryReturns("drain")
    \/ GenerateCommentReturns("drain")
    \/ AddCommentReturns("drain")

TargetSpec == EngineInit /\ [][TargetNext]_vars

\* The two writers of last_active: process_bot_activity, called by a
\* request, and the hourly job.
ActivityNext ==
    \/ Tick
    \/ PlatformAddPost
    \/ \E b \in BotIds : trigger_bot_reaction("request1", b)
    \/ GetPostsReturns("request1")
    \/ LikePostReturns("request1")
    \/ GenerateMemoryReturns("request1")
    \/ GenerateCommentReturns("request1")
    \/ AddCommentReturns("request1")
    \/ schedule_bot_activities

ActivitySpec == Init /\ [][ActivityNext]_vars

\* The population jobs as two scheduler tasks whose invocations overlap: each
\* can be called while the other is suspended at an await. The store starts
\* within the cap, with bots whose names the generated usernames do not take.
OverlapInit ==
    /\ now = StartTime
    /\ \E n \in 0..Min(MAX_BOTS_COUNT, Len(UnrelatedNames)) :
           bots = BotsNamed(SubSeq(UnrelatedNames, 1, n))
    /\ platform_posts = {}
    /\ activities = EmptyBag
    /\ memories = EmptyBag
    /\ scheduled_tasks = <<>>
    /\ drain = NoDrain
    /\ inserted = EmptyBag
    /\ dequeued = EmptyBag
    /\ pc = [p \in Callers |-> "idle"]
    /\ inv = [p \in Callers |-> NoInv]
    /\ invocations = 0
    /\ growth = NoGrowth
    /\ response = NoResponse
    /\ sched = NoSched
    /\ bot_data = NoBotData

OverlapNext ==
    \/ initialize_bots
    \/ daily_growth
    \/ \E j \in Jobs : GenerateUsernameReturns(j)
    \/ \E j \in Jobs : GenerateProfileReturns(j)
    \/ \E j \in Jobs : AddBotReturns(j)

OverlapSpec == OverlapInit /\ [][OverlapNext]_vars

\* The probabilities of a synthesized bot, for every category and variation.
ProfileInit ==
    /\ now = StartTime
    /\ bots = [b \in BotIds |-> BotRow(b, BotProfile(b))]
    /\ platform_posts = {}
    /\ activities = EmptyBag
    /\ memories = EmptyBag
    /\ scheduled_tasks = <<>>
    /\ drain = NoDrain
    /\ inserted = EmptyBag
    /\ dequeued = EmptyBag
    /\ pc = [p \in Callers |-> "idle"]
    /\ inv = [p \in Callers |-> NoInv]
    /\ invocations = 0
    /\ growth = NoGrowth
    /\ response = NoResponse
    /\ sched = NoSched
    /\ \E category \in Categories, jitters \in JitterVectors :
           bot_data = DrawnBotData(category, jitters)

ProfileNext == build_bot_data

ProfileSpec == ProfileInit /\ [][ProfileNext]_vars

----------------------------------------------------------------------------
(* Properties of the reaction queue *)

\* C1: on one reaction queue a task is dequeued at most once: no task id has
\* been extracted twice, no extracted task is in the queue again, and while
\* the extracted tasks are processed none of them, and no task that was due
\* when the drain began, is left in the queue.
C1_DequeuedAtMostOnce ==
    /\ \A task_id \in BagToSet(dequeued) :
        /\ CopiesIn(task_id, dequeued) = 1
        /\ task_id \notin TaskIds(scheduled_tasks)
    /\ TaskIds(drain.due_tasks) \subseteq BagToSet(dequeued)
    /\ drain.running => DueTasks(scheduled_tasks, drain.started_at) = <<>>

\* A drain that found nothing due has run after a drain that extracted a
\* task and processed it.
C1_Witness ==
    /\ dequeued # EmptyBag
    /\ ~drain.running
    /\ drain.results = <<>>
    /\ drain.started_at = now

\* C2: a process_reactions run that begins at or after the due time of a
\* reaction inserted by the react-to-post route has taken that reaction out
\* of the queue for processing.
C2_DueReactionsDrained ==
    \A task \in BagToSet(inserted) :
        (~drain.running /\ drain.started_at >= task.scheduled_time)
            => task.task_id \in BagToSet(dequeued)

----------------------------------------------------------------------------
(* Properties of the decision engine *)

Copies(bot_id, type, post_id) ==
    CopiesIn(ActivityRow(bot_id, type, post_id), activities)

\* C3: in every reachable state the ledger holds at most one Activity per
\* (bot_id, activity_type, target_id), whatever the interleaving of the
\* invocations of process_bot_activity.
C3_AtMostOneActivityPerTriple ==
    \A row \in BagToSet(activities) : CopiesIn(row, activities) <= 1

\* C4: an invocation that runs with no other invocation in flight (a replay,
\* one run after the other) issues a like_post/add_comment call for its post
\* only if the ledger holds no Activity of that type for (bot, post), and
\* what it records is then the only one: a type an earlier run recorded is
\* neither called nor recorded again.
C4_ReplayIsIdempotent ==
    \A p \in Callers :
        (pc[p] # "idle" /\ ~inv[p].concurrent) =>
            \A t \in inv[p].calls :
                Copies(inv[p].bot_id, t, inv[p].post_id)
                    = IF t \in inv[p].recorded THEN 1 ELSE 0

\* A second, sequential run that found the first run's like and skipped it.
C4_Witness ==
    \E p \in Callers :
        /\ pc[p] = "done"
        /\ ~inv[p].concurrent
        /\ inv[p].has_liked
        /\ "like" \notin inv[p].calls
        /\ Copies(inv[p].bot_id, "like", inv[p].post_id) = 1

\* C5: every invocation in which an action was executed and recorded returns
\* status success, also when the memory step after a recorded like fails.
C5_SuccessWheneverRecorded ==
    \A p \in Callers :
        (pc[p] = "done" /\ inv[p].recorded # {}) => inv[p].status = "success"

\* C6: the ledger changes only by one Activity of type like (comment), in the
\* step in which the like_post (add_comment) call of that invocation, for
\* that bot and post, has returned successfully.
C6_RecordedOnlyAfterSuccessfulCall ==
    [][activities' # activities =>
        \E p \in Callers, t \in ActionTypes :
            /\ pc[p] = (IF t = "like" THEN "like_post" ELSE "add_comment")
            /\ t \in inv'[p].acked
            /\ t \in inv'[p].recorded
            /\ activities' = activities (+) SetToBag(
                   {ActivityRow(inv[p].bot_id, t, inv[p].post_id)})]_vars

\* An invocation whose like_post call failed and whose add_comment call
\* succeeded: only the comment is in the ledger.
C6_Witness ==
    \E p \in Callers :
        /\ pc[p] = "done"
        /\ inv[p].calls = {"like", "comment"}
        /\ inv[p].acked = {"comment"}
        /\ Copies(inv[p].bot_id, "like", inv[p].post_id) = 0
        /\ Copies(inv[p].bot_id, "comment", inv[p].post_id) = 1

\* C7: after a failed like attempt the comment condition has been evaluated
\* and the invocation goes on or returns a status; neither a like failure
\* nor a comment failure makes process_bot_activity raise.
C7_ActionFailuresContained ==
    \A p \in Callers :
        /\ inv[p].like_failed =>
               /\ inv[p].comment_evaluated
               /\ pc[p] \in {"generate_comment", "add_comment", "done"}
               /\ inv[p].status # "error"
        /\ inv[p].comment_failed =>
               /\ pc[p] = "done"
               /\ inv[p].status \in {"no_action", "success"}

\* The like failed and the comment was still made and recorded.
C7_Witness ==
    \E p \in Callers :
        /\ pc[p] = "done"
        /\ inv[p].like_failed
        /\ "comment" \in inv[p].recorded
        /\ inv[p].status = "success"

\* The step in which get_posts has returned a list to invocation p.
PostsFetched(p) ==
    /\ pc[p] = "get_posts"
    /\ pc'[p] # "get_posts"
    /\ inv'[p].status # "error"

NoEffect(p) ==
    /\ pc'[p] = "done"
    /\ inv'[p].calls = {}
    /\ activities' = activities
    /\ memories' = memories

\* C8 as stated: whenever no fetched post falls inside the window, also when
\* no post is fetched at all, the status is no_recent_posts.
C8_NoRecentPostsStatus ==
    [][\A p \in Callers :
        (PostsFetched(p) /\ RecentPosts(platform_posts, now) = {}) =>
            inv'[p].status = "no_recent_posts"]_vars

\* C8 amended: whenever no fetched post falls inside the window the
\* invocation returns at once, with no like_post/add_comment call and the
\* ledger and the memory store unchanged; the status is no_recent_posts when
\* posts were fetched and no_posts when the list was empty.
C8_NoCandidatesNoEffect ==
    [][\A p \in Callers :
        (PostsFetched(p) /\ RecentPosts(platform_posts, now) = {}) =>
            /\ NoEffect(p)
            /\ inv'[p].status = IF platform_posts = {}
                                THEN "no_posts"
                                ELSE "no_recent_posts"]_vars

\* Posts were fetched and none was recent.
C8_Witness ==
    \E p \in Callers :
        /\ pc[p] = "done"
        /\ inv[p].status = "no_recent_posts"
        /\ platform_posts # {}
        /\ RecentPosts(platform_posts, now) = {}

\* C9: an invocation for an existing bot sets the bot's last-active time
\* before it fetches the posts; and when the bot's like and comment
\* probabilities are both 0 and a recent post exists, it returns no_action
\* with no like_post/add_comment call and the ledger unchanged.
C9_ZeroProbabilities ==
    [][\A p \in Callers :
        /\ (pc[p] # "get_posts" /\ pc'[p] = "get_posts") =>
               bots'[inv'[p].bot_id].last_active = now
        /\ (/\ PostsFetched(p)
            /\ inv[p].like_probability = 0
            /\ inv[p].comment_probability = 0
            /\ RecentPosts(platform_posts, now) # {}) =>
               /\ NoEffect(p)
               /\ inv'[p].status = "no_action"]_vars

\* A bot with both probabilities 0 looked at a recent post and did nothing;
\* its last-active time is the time of that invocation.
C9_Witness ==
    \E p \in Callers :
        /\ pc[p] = "done"
        /\ inv[p].status = "no_action"
        /\ inv[p].post_id # 0
        /\ inv[p].like_probability = 0
        /\ inv[p].comment_probability = 0
        /\ bots[inv[p].bot_id].last_active = now
        /\ now > StartTime

\* C10: when the drain begins a task whose bot id resolves to no bot, the
\* invocation ends at once with an error, has called nothing, and bots,
\* ledger and memories are as before; the drain then appends an entry with
\* that task's id and status "error", and the task is not in the queue.
C10_MissingBotIsTerminal ==
    [][/\ (/\ drain'.running
           /\ drain'.due_tasks # drain.due_tasks
           /\ Head(drain'.due_tasks).bot_id \notin DOMAIN bots)
          => /\ pc'["drain"] = "done"
             /\ inv'["drain"].status = "error"
             /\ inv'["drain"].calls = {}
             /\ bots' = bots
             /\ activities' = activities
             /\ memories' = memories
             /\ Head(drain'.due_tasks).task_id
                    \notin TaskIds(scheduled_tasks')
       /\ (/\ pc["drain"] = "done"
           /\ inv["drain"].status = "error"
           /\ drain'.results # drain.results)
          => LET entry == drain'.results[Len(drain'.results)] IN
             /\ entry.task_id = Head(drain.due_tasks).task_id
             /\ entry.status = "error"
             /\ entry.error = inv["drain"].error
             /\ entry.task_id \notin TaskIds(scheduled_tasks')
       /\ \A i \in 1..Len(drain.results) :
             drain.results[i].task_id \notin TaskIds(scheduled_tasks')
      ]_vars

\* The drain has reported a task whose bot was deleted after the fan-out.
C10_Witness ==
    \E i \in 1..Len(drain.results) :
        /\ drain.results[i].status = "error"
        /\ drain.results[i].error = "not found"
        /\ drain.results[i].task_id[1] \notin DOMAIN bots

----------------------------------------------------------------------------
(* Properties of the fan-out *)

\* C13: schedule_reactions_for_post puts no task in the queue for a bot whose
\* name is the post's author, and the total_bots it returns is the number of
\* bots whose name is not the author.
C13_AuthorExcluded ==
    response # NoResponse =>
        /\ \A i \in 1..Len(response.tasks) :
               bots[response.tasks[i].bot_id].name # response.post_author
        /\ \A i \in 1..Len(response.visible) :
               bots[response.visible[i]].name # response.post_author
        /\ response.total_bots =
               Cardinality({b \in DOMAIN bots :
                               bots[b].name # response.post_author})

\* The author of the post is a bot, every other bot saw the post and one was
\* scheduled.
C13_Witness ==
    /\ response # NoResponse
    /\ \E b \in DOMAIN bots : bots[b].name = response.post_author
    /\ response.total_bots = Cardinality(DOMAIN bots) - 1
    /\ response.visible_bots = response.total_bots
    /\ response.scheduled_reactions >= 1

\* C14: total_bots is the number of eligible bots, visible_bots is the whole
\* part of ratio * total_bots, scheduled_reactions is the number of visible
\* bots whose trial succeeded, so scheduled_reactions <= visible_bots <=
\* total_bots; when the ratio is 1.0 and every trial succeeds the three are
\* equal.
C14_FanOutCounts ==
    response # NoResponse =>
        LET succeeded == {i \in 1..Len(response.visible) :
                             response.will_react[i]}
        IN
        /\ response.total_bots =
               Cardinality({b \in DOMAIN bots :
                               bots[b].name # response.post_author})
        /\ response.visible_bots =
               (response.ratio * response.total_bots) \div 100
        /\ response.visible_bots = Len(response.visible)
        /\ response.scheduled_reactions = Cardinality(succeeded)
        /\ response.scheduled_reactions <= response.visible_bots
        /\ response.visible_bots <= response.total_bots
        /\ (/\ response.ratio = 100
            /\ \A i \in 1..Len(response.visible) : response.will_react[i])
           => /\ response.scheduled_reactions = response.visible_bots
              /\ response.visible_bots = response.total_bots

\* With the ratio forced to 1.0 every bot of the table saw the post of an
\* author who is no bot, and every trial succeeded.
C14_Witness ==
    /\ response # NoResponse
    /\ response.ratio = 100
    /\ response.total_bots = Cardinality(DOMAIN bots)
    /\ response.total_bots >= 2
    /\ response.scheduled_reactions = response.total_bots
    /\ response.visible_bots = response.total_bots

\* C15: a task that schedule_reactions_for_post puts in the queue at time t is
\* due at t + d with REACTION_DELAY_MIN <= d <= REACTION_DELAY_MAX, and has
\* the id of a visible bot and the post id of the call.
C15_TaskDueWithinDelay ==
    response # NoResponse =>
        \A i \in 1..Len(response.tasks) :
            LET task == response.tasks[i]
                d == task.scheduled_time - response.called_at
            IN
            /\ REACTION_DELAY_MIN <= d
            /\ d <= REACTION_DELAY_MAX
            /\ \E k \in 1..Len(response.visible) :
                   response.visible[k] = task.bot_id
            /\ task.post_id = response.post_id

\* Two tasks were put in the queue after the clock had advanced, one with the
\* shortest and one with the longest delay.
C15_Witness ==
    /\ response # NoResponse
    /\ response.called_at > StartTime
    /\ Len(response.tasks) >= 2
    /\ \E i, k \in 1..Len(response.tasks) :
        /\ response.tasks[i].scheduled_time =
               response.called_at + REACTION_DELAY_MIN
        /\ response.tasks[k].scheduled_time =
               response.called_at + REACTION_DELAY_MAX

----------------------------------------------------------------------------
(* Properties of the scheduler *)

\* the registered tasks that have no interval
OneShotTasks ==
    {id \in DOMAIN sched.tasks : sched.tasks[id].interval = NoInterval}

\* C18: a task registered with no interval is invoked once: it is invoked
\* at some time, not before its delay has passed since it was registered, and
\* after that it has no run ahead and is not invoked again.
C18_OneShotInvokedOnce ==
    /\ [](\A id \in OneShotTasks :
            LET task == sched.tasks[id] IN
            /\ task.invocations <= 1
            /\ task.skipped = 0
            /\ task.invocations = 1 =>
                /\ task.invoked_at >= task.registered_at + task.delay
                /\ task.next_run = NoRun)
    /\ [][\A id \in OneShotTasks :
            sched'.tasks[id].invocations > sched.tasks[id].invocations =>
                /\ sched.tasks[id].invocations = 0
                /\ sched.clock >=
                       sched.tasks[id].registered_at + sched.tasks[id].delay
         ]_vars
    /\ (sched.started ~>
            \A id \in OneShotTasks : sched.tasks[id].invocations = 1)

\* initialize_bots was invoked 5 seconds after the start, has returned, and
\* five minutes later it has still been invoked once.
C18_Witness ==
    /\ sched.started
    /\ sched.tasks["initialize_bots"].invocations = 1
    /\ sched.tasks["initialize_bots"].invoked_at = 5
    /\ sched.tasks["initialize_bots"].outcome = "returned"
    /\ sched.clock >= 300

\* the ticks of a task that have fired up to time t
TicksUpTo(task, t) ==
    IF t < task.registered_at + task.delay
    THEN 0
    ELSE IF task.interval = NoInterval
    THEN 1
    ELSE 1 + (t - task.registered_at - task.delay) \div task.interval

\* C19: at most one invocation of a task id is executing; a tick that fires
\* while the previous invocation of its task is executing is skipped, and no
\* invocation is started for it later: an invocation starts only at a tick of
\* its task, and the invocations and the skipped ticks of a task are no more
\* than the ticks that have fired.
C19_NoOverlapPerTask ==
    [][\A id \in DOMAIN sched'.tasks :
        LET v == sched'.tasks[id] IN
        /\ v.executing <= 1
        /\ v.invocations + v.skipped <= TicksUpTo(v, sched'.clock)
        /\ id \in DOMAIN sched.tasks =>
            LET u == sched.tasks[id] IN
            /\ v.invocations > u.invocations =>
                /\ u.next_run = sched.clock
                /\ u.executing = 0
                /\ v.invocations = u.invocations + 1
                /\ v.skipped = u.skipped
            /\ (u.next_run = sched.clock /\ v.next_run # u.next_run
                    /\ u.executing > 0) =>
                /\ v.skipped = u.skipped + 1
                /\ v.invocations = u.invocations
                /\ v.executing = u.executing
            /\ v.executing < u.executing =>
                /\ v.invocations = u.invocations
                /\ v.next_run = u.next_run
      ]_vars

\* A tick of process_reactions was skipped because its invocation of 30
\* seconds after the start is still executing, while the invocation of
\* initialize_bots is executing too.
C19_Witness ==
    /\ sched.started
    /\ sched.tasks["process_reactions"].skipped >= 1
    /\ sched.tasks["process_reactions"].executing = 1
    /\ sched.tasks["process_reactions"].invocations = 1
    /\ sched.tasks["initialize_bots"].executing = 1

\* C20: when an invocation raises, the task keeps the run it has ahead and
\* no other task changes; a task with an interval always has a run ahead, and
\* a tick that finds no invocation of its task executing starts one, also
\* after an invocation that raised.
C20_ExceptionContained ==
    [][\A id \in DOMAIN sched.tasks :
        LET u == sched.tasks[id]
            v == sched'.tasks[id]
        IN
        /\ (v.executing < u.executing /\ v.outcome = "raised") =>
            /\ v.next_run = u.next_run
            /\ sched'.started = sched.started
            /\ \A other \in DOMAIN sched.tasks \ {id} :
                   sched'.tasks[other] = sched.tasks[other]
        /\ v.interval # NoInterval =>
            /\ v.next_run # NoRun
            /\ v.next_run >= sched'.clock
        /\ (u.next_run = sched.clock /\ v.next_run # u.next_run
                /\ u.executing = 0) =>
            /\ v.invocations = u.invocations + 1
            /\ v.executing = 1
      ]_vars

\* An invocation of process_reactions raised, its next invocation is
\* executing, and schedule_bot_activities has been invoked at its time.
C20_Witness ==
    /\ sched.started
    /\ sched.tasks["process_reactions"].outcome = "raised"
    /\ sched.tasks["process_reactions"].executing = 1
    /\ sched.tasks["process_reactions"].invocations >= 2
    /\ sched.tasks["schedule_bot_activities"].invocations = 1
    /\ sched.tasks["schedule_bot_activities"].invoked_at = 300

----------------------------------------------------------------------------
(* Properties of bot synthesis and of the population jobs *)

\* C11: daily_growth attempts at most max(0, cap - current) creations, and
\* at a population that has reached the cap it returns 0 without an attempt
\* and without a new bot; when no other creator ran during it and the
\* population was within the cap at its call, the population is within the
\* cap at its return.
C11_DailyGrowthWithinCap ==
    [][LET v == growth'["daily_growth"] IN
       /\ v.pc # "idle" =>
           /\ v.attempts <= Max(0, MAX_BOTS_COUNT - v.bot_count)
           /\ v.to_create <= Max(0, MAX_BOTS_COUNT - v.bot_count)
           /\ v.bot_count >= MAX_BOTS_COUNT =>
               /\ v.pc = "returned"
               /\ v.result = 0
               /\ v.attempts = 0
               /\ v.created = {}
       /\ (/\ growth["daily_growth"].pc # "returned"
           /\ v.pc = "returned"
           /\ ~v.overlapped
           /\ v.bot_count <= MAX_BOTS_COUNT)
          => /\ Cardinality(DOMAIN bots') <= MAX_BOTS_COUNT
             /\ Cardinality(DOMAIN bots') - v.bot_count <= v.attempts
      ]_vars

\* daily_growth was called one bot below the cap, where the clamp leaves one
\* creation of any draw, and has returned with the population at the cap.
C11_Witness ==
    LET v == growth["daily_growth"] IN
    /\ v.pc = "returned"
    /\ v.bot_count = MAX_BOTS_COUNT - 1
    /\ v.to_create = 1
    /\ v.attempts = 1
    /\ v.result = 1
    /\ count_bots = MAX_BOTS_COUNT
    /\ growth["initialize_bots"].pc = "idle"

\* C12: initialize_bots called at a count that has reached the target returns
\* 0 without an attempt; otherwise it makes target - current attempts, one at
\* a time, whatever attempts fail, raises none of the failures, and returns
\* the number of attempts that succeeded.
C12_InitializeBotsAttempts ==
    [][LET u == growth["initialize_bots"]
           v == growth'["initialize_bots"]
       IN
       /\ v.attempts <= u.attempts + 1
       /\ v.pc # "idle" =>
           /\ v.bot_count >= INITIAL_BOTS_COUNT =>
               /\ v.pc = "returned"
               /\ v.result = 0
               /\ v.attempts = 0
               /\ v.created = {}
           /\ v.bot_count < INITIAL_BOTS_COUNT =>
               /\ v.to_create = INITIAL_BOTS_COUNT - v.bot_count
               /\ v.attempts <= v.to_create
               /\ v.attempts >= 1
       /\ v.pc = "returned" =>
           /\ v.attempts = Max(0, INITIAL_BOTS_COUNT - v.bot_count)
           /\ v.result = v.attempts - v.failed
           /\ 0 <= v.result
           /\ v.result <= Max(0, INITIAL_BOTS_COUNT - v.bot_count)
      ]_vars

\* initialize_bots has made all of its attempts, two or more, although every
\* attempt but the last failed, and has returned 1.
C12_Witness ==
    LET v == growth["initialize_bots"] IN
    /\ v.pc = "returned"
    /\ v.attempts >= 2
    /\ v.failed = v.attempts - 1
    /\ v.error = ""
    /\ v.result = 1

\* C17: generate_unique_bot_username requests at most 10 candidates and then
\* tries at most 10 suffixes, and every candidate that is returned advances
\* it; the name it returns is the name of no bot in the store at that moment;
\* when all 20 names are taken the attempt fails, the store is unchanged, and
\* the job goes on with its next attempt or returns.
C17_UsernameSearchBounded ==
    [][\A j \in Jobs :
        LET u == growth[j]
            v == growth'[j]
        IN
        /\ v.requested <= 10
        /\ v.suffixes <= 10
        /\ (u.pc = "username" /\ v # u) =>
            \/ v.pc # "username"
            \/ v.attempts = u.attempts + 1
            \/ v.requested = u.requested + 1
        /\ (u.pc = "username" /\ v.pc = "profile") =>
            /\ v.username # <<>>
            /\ \A b \in DOMAIN bots : bots[b].name # v.username
            /\ v.suffixes > 0 => u.requested = 10
        /\ (u.pc = "username" /\ v.failed = u.failed + 1
                /\ v.error = "exhausted") =>
            /\ u.requested = 10
            /\ bots' = bots
            /\ v.created = u.created
            /\ v.created_count = u.created_count
            /\ IF u.attempts < u.to_create
               THEN /\ v.pc = "username"
                    /\ v.attempts = u.attempts + 1
                    /\ v.requested = 1
                    /\ v.suffixes = 10
               ELSE /\ v.pc = "returned"
                    /\ v.result = u.created_count
      ]_vars

\* All 20 names of an attempt were taken, and the job is in its next attempt.
C17_Witness ==
    \E j \in Jobs :
        /\ growth[j].pc = "username"
        /\ growth[j].error = "exhausted"
        /\ growth[j].suffixes = 10
        /\ growth[j].attempts >= 2
        /\ growth[j].created = {}

\* C16: the like, comment, follow and unfollow probabilities of a synthesized
\* bot are between 0.1 and 0.9 and its repost probability is between 0.0 and
\* 0.3, for every category and every variation of the baseline (in
\* hundredths: up to 10 either way, up to 5 for the repost probability).
C16_ProbabilitiesWithinBounds ==
    (bot_data # NoBotData /\ "probabilities" \in DOMAIN bot_data) =>
        /\ \A field \in ProbabilityFields \ {"repost_probability"} :
               /\ 10 <= bot_data.probabilities[field]
               /\ bot_data.probabilities[field] <= 90
        /\ 0 <= bot_data.probabilities["repost_probability"]
        /\ bot_data.probabilities["repost_probability"] <= 30

\* A bot whose baseline and variation add up to less than the lower bound:
\* a hater's like probability, 0.1 - 0.1, is stored as 0.1.
C16_Witness ==
    /\ bot_data # NoBotData
    /\ "probabilities" \in DOMAIN bot_data
    /\ bot_data.category = "hater"
    /\ bot_data.jitters["like_probability"] = -10
    /\ bot_data.probabilities["like_probability"] = 10
    /\ bot_data.jitters["comment_probability"] = 3

\* C28: a creation that fails adds no bot to the store: when initialize_bots
\* or daily_growth returns r after it was called at a count of c, with no
\* other creator running meanwhile, the store holds c + r bots, and the bots
\* the job inserted are as many as the attempts that succeeded.
C28_FailedCreationAddsNoBot ==
    [][\A j \in Jobs :
        LET u == growth[j]
            v == growth'[j]
        IN
        (u.pc # "returned" /\ v.pc = "returned" /\ ~v.overlapped) =>
            /\ Cardinality(DOMAIN bots') = v.bot_count + v.result
            /\ Cardinality(v.created) = v.result
      ]_vars

\* C29: with initialize_bots (target <= cap) and daily_growth as the only
\* creators, interleaved at their awaits, the population never exceeds the
\* cap.
C29_CapUnderOverlap ==
    INITIAL_BOTS_COUNT <= MAX_BOTS_COUNT =>
        Cardinality(DOMAIN bots) <= MAX_BOTS_COUNT

\* C21: after stop() no invocation starts: the invocations of every task
\* stay what they were and the executing ones can only end; stop() itself
\* changes no task, so an invocation that was executing at stop() is still
\* executing after it; and every such invocation ends by returning or
\* raising.
C21_StopIsGraceful ==
    /\ [][sched.stopped =>
            /\ sched'.stopped
            /\ \A id \in DOMAIN sched.tasks :
                 /\ sched'.tasks[id].invocations = sched.tasks[id].invocations
                 /\ sched'.tasks[id].invoked_at = sched.tasks[id].invoked_at
                 /\ sched'.tasks[id].executing <= sched.tasks[id].executing
         ]_vars
    /\ [][(~sched.stopped /\ sched'.stopped) =>
            /\ sched'.tasks = sched.tasks
            /\ sched'.in_flight =
                   {id \in DOMAIN sched.tasks : sched.tasks[id].executing > 0}
         ]_vars
    /\ \A id \in DOMAIN BackgroundTasks :
         (sched.stopped /\ id \in sched.in_flight)
             ~> (/\ id \in DOMAIN sched.tasks
                 /\ sched.tasks[id].executing = 0
                 /\ sched.tasks[id].outcome \in {"returned", "raised"})

\* The scheduler was stopped while process_reactions was executing; that
\* invocation has returned, and the run of another task has come due at the
\* clock without being invoked.
C21_Witness ==
    /\ sched.stopped
    /\ "process_reactions" \in sched.in_flight
    /\ sched.tasks["process_reactions"].executing = 0
    /\ sched.tasks["process_reactions"].outcome = "returned"
    /\ \E id \in DOMAIN sched.tasks :
         /\ sched.tasks[id].next_run = sched.clock
         /\ sched.tasks[id].executing = 0
         /\ sched.tasks[id].invoked_at < sched.clock
\* C22: the response of GET reactions has a pending_count equal to the number
\* of reactions the fan-out calls have inserted and no drain has removed, and
\* it lists exactly those reactions.
C22_PendingCountReported ==
    [][("pending_count" \in DOMAIN response' /\ response' # response) =>
          /\ response'.pending_count =
                 BagCardinality(inserted) - BagCardinality(dequeued)
          /\ {response'.scheduled_reactions[i].task_id :
                 i \in DOMAIN response'.scheduled_reactions} =
                 {task.task_id : task \in BagToSet(inserted)}
                     \ BagToSet(dequeued)
      ]_vars
\* C23: the extraction of a drain at time now takes out of the queue exactly
\* the tasks whose scheduled_time is <= now, and these are the tasks it goes
\* on to process; every task with a later scheduled_time stays in the queue
\* as it was, at its place among the others, and no due task stays.
C23_DrainTakesExactlyDue ==
    [][(~drain.running /\ drain' # drain) =>
          LET q == scheduled_tasks
              later == {i \in DOMAIN q : q[i].scheduled_time > now}
              due == {i \in DOMAIN q : q[i].scheduled_time <= now}
          IN
          /\ drain'.started_at = now
          /\ {drain'.due_tasks[i] : i \in DOMAIN drain'.due_tasks} =
                 {q[i] : i \in due}
          /\ Len(drain'.due_tasks) = Cardinality(due)
          /\ Len(scheduled_tasks') = Cardinality(later)
          /\ \A i \in later :
                 scheduled_tasks'[Cardinality({j \in later : j <= i})] = q[i]
          /\ \A i \in DOMAIN scheduled_tasks' :
                 scheduled_tasks'[i].scheduled_time > now
          /\ dequeued' = dequeued (+) SeqToBag(
                 [i \in DOMAIN drain'.due_tasks |->
                     drain'.due_tasks[i].task_id])
          /\ drain'.running =>
                 inv'["drain"].bot_id = drain'.due_tasks[1].bot_id
      ]_vars

\* A drain has extracted a due task while a task that was inserted before
\* the drain and is due after it is still in the queue.
C23_Witness ==
    /\ drain.started_at = now
    /\ Len(drain.due_tasks) + Len(drain.results) >= 1
    /\ \E i \in DOMAIN scheduled_tasks :
         /\ scheduled_tasks[i].task_id[3] < drain.started_at
         /\ scheduled_tasks[i].scheduled_time > drain.started_at
\* C24: a drain appends one result entry for the task it has just processed,
\* with status error when process_bot_activity raised and status success
\* otherwise, and goes on with the next extracted task whatever the status:
\* the task ids of the results followed by those of the tasks still to
\* process stay the ids in extraction order; the drain ends only when no
\* extracted task is left, having returned one entry per task.
C24_OneResultPerDrainedTask ==
    /\ [][(drain.running /\ drain' # drain) =>
            LET task == drain.due_tasks[1]
                entry == drain'.results[Len(drain'.results)]
            IN
            /\ Len(drain'.results) = Len(drain.results) + 1
            /\ SubSeq(drain'.results, 1, Len(drain.results)) = drain.results
            /\ drain'.due_tasks = Tail(drain.due_tasks)
            /\ entry.task_id = task.task_id
            /\ entry.status = IF inv["drain"].status = "error"
                               THEN "error" ELSE "success"
            /\ drain'.running = (drain'.due_tasks # <<>>)
            /\ drain'.running =>
                   /\ inv'["drain"].bot_id = drain'.due_tasks[1].bot_id
                   /\ pc'["drain"] # "idle"
         ]_vars
    /\ [][(~drain.running /\ drain' # drain) =>
            /\ drain'.results = <<>>
            /\ drain'.running = (drain'.due_tasks # <<>>)
         ]_vars
    /\ [](~drain.running => drain.due_tasks = <<>>)

\* A drain of two tasks has returned two entries: the first task raised and
\* the second was processed.
C24_Witness ==
    /\ ~drain.running
    /\ Len(drain.results) = 2
    /\ drain.results[1].status = "error"
    /\ drain.results[2].status = "success"
    /\ drain.results[1].task_id # drain.results[2].task_id
\* C25: a fan-out call that schedules reactions adds its entries to the
\* queue and overwrites none: the entries the queue held before the call
\* are still there, unchanged, and the queue is longer than it was.
C25_NoEntryOverwritten ==
    [][(scheduled_tasks' # scheduled_tasks /\ dequeued' = dequeued) =>
          /\ Len(scheduled_tasks') > Len(scheduled_tasks)
          /\ SubSeq(scheduled_tasks', 1, Len(scheduled_tasks)) =
                 scheduled_tasks
      ]_vars
\* C26: when get_posts returns, the post process_bot_activity chooses is a
\* post whose OnDate is written in one of the known formats and whose day d
\* satisfies today - 2 <= d <= today; it returns no_recent_posts exactly when
\* the platform has posts and none of them is such a post; and every like or
\* comment Activity that is recorded has the bot and the post of an
\* invocation that chose it.
C26_CandidatesInWindow ==
    /\ [][\A p \in Requests :
            (pc[p] = "get_posts" /\ pc'[p] # "get_posts"
                 /\ inv'[p].status # "error") =>
            LET today == DateOf(now)
                in_window ==
                    {post \in platform_posts :
                        /\ \E k \in DOMAIN KnownFormats :
                               KnownFormats[k] = post.OnDate.fmt
                        /\ today - 2 <= post.OnDate.day
                        /\ post.OnDate.day <= today}
            IN
            /\ inv'[p].post_id # 0 =>
                   inv'[p].post_id \in {post.docID : post \in in_window}
            /\ (in_window = {} /\ platform_posts # {})
                   <=> inv'[p].status = "no_recent_posts"
            /\ in_window # {} => inv'[p].post_id # 0
         ]_vars
    /\ [][\A row \in BagToSet(activities') :
            CopiesIn(row, activities') > CopiesIn(row, activities) =>
                \E p \in Callers :
                    /\ InFlight(p)
                    /\ inv[p].bot_id = row.bot_id
                    /\ inv[p].post_id # 0
                    /\ Str(inv[p].post_id) = row.target_id
         ]_vars

\* After midnight a bot has liked post 4, which was dated in the future
\* before, while post 1, now 3 days old, and the posts with an unknown or a
\* missing date are on the platform.
C26_Witness ==
    /\ DateOf(now) = Today0 + 1
    /\ platform_posts = PostsOfEveryKind
    /\ \E b \in BotIds : ActivityRow(b, "like", 4) \in BagToSet(activities)
\* C27: while the drain processes the task of a reaction scheduled for post
\* P, every like or comment it has recorded targets P.
C27_ReactionTargetsItsPost ==
    (drain.running /\ inv["drain"].recorded # {}) =>
        Str(inv["drain"].post_id) = drain.due_tasks[1].post_id
\* C30: in every state the last_active of every bot is not later than the
\* current time.
C30_LastActiveNotInFuture ==
    \A b \in DOMAIN bots : bots[b].last_active <= now
====
